---- MODULE Spec2Model ----
(***************************************************************************)
(* brewblox_mdns.dns_discovery: the discovery session (_discover), its two *)
(* wrappers (discover_one, discover_all), the resolution tasks started by  *)
(* the browser's change handler, and the timeout that bounds a call.       *)
(*                                                                         *)
(* asyncio is cooperative: the code between two suspension points runs as  *)
(* one step.  The suspension points of a call are `await queue.get()` on   *)
(* an empty queue (line 44), `await conf.close()` (line 57) and, in a      *)
(* resolution task, `await conf.get_service_info()` (line 32).  A `yield`  *)
(* hands a record to the consumer without suspending the task.             *)
(***************************************************************************)
EXTENDS Integers, Sequences, FiniteSets, TLC

\* ------------------------------------------------------------------ bounds
MaxAdded == 2

MaxOthers == 1

\* ----------------------------------------------------------------- strings
\* A Python str is a sequence of one-character strings.
UpperAlpha == <<"A", "B", "C", "D", "E", "F", "G", "H", "I", "J", "K", "L", "M",
                "N", "O", "P", "Q", "R", "S", "T", "U", "V", "W", "X", "Y", "Z">>

LowerAlpha == <<"a", "b", "c", "d", "e", "f", "g", "h", "i", "j", "k", "l", "m",
                "n", "o", "p", "q", "r", "s", "t", "u", "v", "w", "x", "y", "z">>

LowerChar(c) ==
    IF \E i \in DOMAIN UpperAlpha : UpperAlpha[i] = c
    THEN LowerAlpha[CHOOSE i \in DOMAIN UpperAlpha : UpperAlpha[i] = c]
    ELSE c

\* str.lower()
Lower(str) == [i \in 1..Len(str) |-> LowerChar(str[i])]

DigitChar == <<"0", "1", "2", "3", "4", "5", "6", "7", "8", "9">>

\* the decimal text of a byte, as inet_ntoa prints it
RECURSIVE DecStr(_)
DecStr(n) ==
    IF n < 10 THEN <<DigitChar[n + 1]>>
    ELSE DecStr(n \div 10) \o <<DigitChar[(n % 10) + 1]>>

\* socket.inet_ntoa: four packed bytes to dotted-quad text
inet_ntoa(packed) ==
    DecStr(packed[1]) \o <<".">> \o DecStr(packed[2]) \o <<".">>
        \o DecStr(packed[3]) \o <<".">> \o DecStr(packed[4])

\* the literal '.local.'
LocalSuffix == <<".", "l", "o", "c", "a", "l", ".">>

\* the literal '0.0.0.0'
SimulatorAddr == <<"0", ".", "0", ".", "0", ".", "0">>

\* ------------------------------------------------------------ the network
Sessions == {"s1", "s2"}

\* ServiceStateChange
StateChanges == {"Added", "Removed", "Updated"}

\* get_service_info found nothing: it answers None
NoneInfo == [isNone |-> TRUE, address |-> <<>>, port |-> 0, server |-> <<>>]

\* What get_service_info answers for each instance on the network: "spark" is
\* a device, "other" a device whose name only starts like it, "sim" a
\* simulator, and "gone" announces itself but never answers the fetch.
ServiceInfo(name) ==
    CASE name = "spark" ->
           [isNone |-> FALSE, address |-> <<192, 168, 0, 12>>, port |-> 8332,
            server |-> <<"A", "b", ".", "l", "o", "c", "a", "l", ".">>]
      [] name = "other" ->
           [isNone |-> FALSE, address |-> <<10, 0, 0, 7>>, port |-> 80,
            server |-> <<"a", "b", "c", ".", "l", "o", "c", "a", "l", ".">>]
      [] name = "sim" ->
           [isNone |-> FALSE, address |-> <<0, 0, 0, 0>>, port |-> 8332,
            server |-> <<"a", "b", ".", "l", "o", "c", "a", "l", ".">>]
      [] name = "gone" -> NoneInfo

Instances == {"spark", "other", "sim", "gone"}

\* the `id` argument: None, '' or a string
NoId == [some |-> FALSE, val |-> <<>>]

Ids == {NoId,
        [some |-> TRUE, val |-> <<>>],
        [some |-> TRUE, val |-> <<"a", "B">>]}


\* ------------------------------------------------------------ _discover
\* line 41 leaving the identity out
MatchOf_Any(id) == [some |-> FALSE, val |-> <<>>]

\* line 41: match = f'{id}.local.'.lower() if id else None  (None and '' are falsy)
MatchOf(id) ==
    IF id.some /\ id.val # <<>>
    THEN [some |-> TRUE, val |-> Lower(id.val \o LocalSuffix)]
    ELSE [some |-> FALSE, val |-> <<>>]

\* line 46 without the discard
IsSimulator_NeverDiscards(addr) == FALSE

\* line 46: addr == '0.0.0.0'
IsSimulator(addr) == addr = SimulatorAddr

\* line 48 comparing without .lower()
Matches_CaseSensitive(match, server) == (~match.some) \/ server = match.val

\* line 48: match is None or info.server.lower() == match
Matches(match, server) == (~match.some) \/ Lower(server) = match.val

\* line 49 taking the lower-cased name
Serial_Lowered(server) == Lower(SubSeq(server, 1, Len(server) - Len(LocalSuffix)))

\* line 49: info.server[:-len('.local.')]
Serial(server) == SubSeq(server, 1, Len(server) - Len(LocalSuffix))

\* line 51: the tuple the generator yields.  (An item's ev, owner, putAt and
\* done tell which announcement it answers, which session's browser reported
\* it, where that session was when it was put, and the how-manieth resolution
\* to complete it was; the program reads none of them.)
Yielded(item) ==
    [addr |-> inet_ntoa(item.info.address), port |-> item.info.port,
     serial |-> Serial(item.info.server), ev |-> item.ev, owner |-> item.owner]

\* Lines 43-55, from a wake-up of `await queue.get()` to the next suspension:
\* queue.get() does not suspend while the queue holds an item, and a yield does
\* not suspend the task, so the loop runs on until the queue is empty ("wait"),
\* the body raises on a None info ("raise"), single mode returns ("return"),
\* or the consumer leaves its `async for` after a record ("abandon").
\* lines 52-53 without the return
AfterYield_NoReturn(single, leaves) == IF leaves THEN "abandon" ELSE "continue"

\* lines 52-53, after the consumer took the record: `if single: return`
AfterYield(single, leaves) ==
    IF single THEN "return" ELSE IF leaves THEN "abandon" ELSE "continue"

\* a loop that leaves out a device it has already yielded
RECURSIVE RunLoop_Dedup(_, _, _, _, _)
RunLoop_Dedup(q, out, match, single, leaves) ==
    IF q = <<>> THEN [queue |-> q, out |-> out, exit |-> "wait"]
    ELSE LET item == Head(q) IN
         IF item.info.isNone
         THEN [queue |-> Tail(q), out |-> out, exit |-> "raise"]
         ELSE IF IsSimulator(inet_ntoa(item.info.address))
         THEN RunLoop_Dedup(Tail(q), out, match, single, leaves)
         ELSE IF /\ Matches(match, item.info.server)
                 /\ \A i \in DOMAIN out : out[i].serial # Serial(item.info.server)
         THEN IF AfterYield(single, leaves) = "continue"
              THEN RunLoop_Dedup(Tail(q), Append(out, Yielded(item)), match,
                                 single, leaves)
              ELSE [queue |-> Tail(q), out |-> Append(out, Yielded(item)),
                    exit |-> AfterYield(single, leaves)]
         ELSE RunLoop_Dedup(Tail(q), out, match, single, leaves)

RECURSIVE RunLoop(_, _, _, _, _)
RunLoop(q, out, match, single, leaves) ==
    IF q = <<>> THEN [queue |-> q, out |-> out, exit |-> "wait"]
    ELSE LET item == Head(q) IN
         IF item.info.isNone
         THEN [queue |-> Tail(q), out |-> out, exit |-> "raise"]
         ELSE IF IsSimulator(inet_ntoa(item.info.address))
         THEN RunLoop(Tail(q), out, match, single, leaves)
         ELSE IF Matches(match, item.info.server)
         THEN IF AfterYield(single, leaves) = "continue"
              THEN RunLoop(Tail(q), Append(out, Yielded(item)), match, single, leaves)
              ELSE [queue |-> Tail(q), out |-> Append(out, Yielded(item)),
                    exit |-> AfterYield(single, leaves)]
         ELSE RunLoop(Tail(q), out, match, single, leaves)

\* ------------------------------------------------------------- wrappers
\* the timeout block letting the CancelledError through
TimeoutExit_NoConversion(exc, fired) == exc

\* `async with timeout(timeout_v)` on exit: a CancelledError that the timer
\* caused becomes asyncio.TimeoutError; anything else passes through.
TimeoutExit(exc, fired) ==
    IF exc = "CancelledError" /\ fired THEN "TimeoutError" ELSE exc

\* discover_all without the suppress block
DiscoverAllOutcome_NoSuppress(exc) ==
    CASE exc = "none" -> "ended"
      [] exc = "TimeoutError" -> "Timeout"
      [] exc = "CancelledError" -> "Cancelled"
      [] OTHER -> "Error"

\* discover_all: suppress(asyncio.TimeoutError) around the timeout block
DiscoverAllOutcome(exc) ==
    IF exc \in {"none", "TimeoutError"} THEN "ended"
    ELSE IF exc = "CancelledError" THEN "Cancelled" ELSE "Error"

\* discover_one: return retv, or the exception that left the timeout block
DiscoverOneOutcome(exc) ==
    CASE exc = "none" -> "returned"
      [] exc = "TimeoutError" -> "Timeout"
      [] exc = "CancelledError" -> "Cancelled"
      [] OTHER -> "Error"

\* -------------------------------------------------------------- state
VARIABLES
    cfg,            \* the call's arguments and its consumer
    pc,             \* where the calling task is: idle, get, closing, abandoned, done
    sub,            \* conf and its ServiceBrowser: none, open, closing, released, interrupted, failed
    timer,          \* the timeout's call_later handle: none, armed, fired, disarmed
    cancelPending,  \* task.cancel() was called and CancelledError is not yet thrown
    extCancelled,   \* the caller's task was cancelled from outside
    inflight,       \* add_service tasks waiting in get_service_info
    queue,          \* the session's asyncio.Queue
    yielded,        \* the records the consumer has received
    retv,           \* discover_one's retv (<<>> while unassigned)
    exitReason,     \* why the finally block was entered
    outcome,        \* how the call ended for its caller
    added,          \* the instance names the browser reported as Added, in order
    dequeued,       \* every item queue.get() has returned
    addedAtElapse,  \* Len(added) when the timeout elapsed (-1: not elapsed)
    stray,          \* the timeout cancelled the consumer outside the generator
    others          \* how many changes other than Added the handler was called with

vars == <<cfg, pc, sub, timer, cancelPending, extCancelled, inflight, queue,
          yielded, retv, exitReason, outcome, added, dequeued, addedAtElapse,
          stray, others>>

NoCfg == [entry |-> "none", id |-> NoId, timed |-> FALSE, consumer |-> "drain"]

Init ==
    /\ cfg = [s \in Sessions |-> NoCfg]
    /\ pc = [s \in Sessions |-> "idle"]
    /\ sub = [s \in Sessions |-> "none"]
    /\ timer = [s \in Sessions |-> "none"]
    /\ cancelPending = [s \in Sessions |-> FALSE]
    /\ extCancelled = [s \in Sessions |-> FALSE]
    /\ inflight = [s \in Sessions |-> {}]
    /\ queue = [s \in Sessions |-> <<>>]
    /\ yielded = [s \in Sessions |-> <<>>]
    /\ retv = [s \in Sessions |-> <<>>]
    /\ exitReason = [s \in Sessions |-> "none"]
    /\ outcome = [s \in Sessions |-> "pending"]
    /\ added = [s \in Sessions |-> <<>>]
    /\ dequeued = [s \in Sessions |-> <<>>]
    /\ addedAtElapse = [s \in Sessions |-> -1]
    /\ stray = [s \in Sessions |-> FALSE]
    /\ others = [s \in Sessions |-> 0]


\* ------------------------------------------------------------- the calls
\* The call up to its first suspension: the timeout is armed (lines 62, 68),
\* the queue and the Zeroconf are made, the ServiceBrowser subscribes
\* (lines 28-40), and the loop waits in queue.get() on the empty queue.
StartSession(s, c) ==
    /\ pc[s] = "idle"
    /\ cfg' = [cfg EXCEPT ![s] = c]
    /\ pc' = [pc EXCEPT ![s] = "get"]
    /\ sub' = [sub EXCEPT ![s] = "open"]
    /\ timer' = [timer EXCEPT ![s] = IF c.timed THEN "armed" ELSE "none"]
    /\ UNCHANGED <<cancelPending, extCancelled, inflight, queue, yielded,
                   retv, exitReason, outcome, added, dequeued, addedAtElapse,
                   stray, others>>

\* discover_one(id, dns_type, timeout_v): _discover(id, dns_type, True)
discover_one(s, id, timed) ==
    StartSession(s, [entry |-> "one", id |-> id, timed |-> timed,
                     consumer |-> "drain"])

\* discover_all(id, dns_type, timeout_v): _discover(id, dns_type, False); the
\* consumer either iterates to the end (post_discover_all, print_wifi) or
\* leaves its loop after the first record.
discover_all(s, id, timed, consumer) ==
    StartSession(s, [entry |-> "all", id |-> id, timed |-> timed,
                     consumer |-> consumer])

\* ----------------------------------------------------- resolution pipeline
\* The browser reports while the Zeroconf has not been closed.
Listening(s) == sub[s] \in {"open", "closing", "interrupted", "failed"}

\* a handler that starts a task on every change
sync_change_handler_AnyChange(s, name, change) ==
    /\ Listening(s)
    /\ IF change = "Added"
       THEN /\ Len(added[s]) < MaxAdded
            /\ added' = [added EXCEPT ![s] = Append(@, name)]
            /\ UNCHANGED others
       ELSE /\ others[s] < MaxOthers
            /\ others' = [others EXCEPT ![s] = @ + 1]
            /\ UNCHANGED added
    /\ inflight' = [inflight EXCEPT
           ![s] = @ \cup {[name |-> name, ev |-> Len(added[s]) + 1]}]
    /\ UNCHANGED <<cfg, pc, sub, timer, cancelPending, extCancelled, queue,
                   yielded, retv, exitReason, outcome, dequeued, addedAtElapse,
                   stray>>

\* sync_change_handler: only Added starts an add_service task; on any other
\* change the handler returns at once.
sync_change_handler(s, name, change) ==
    /\ Listening(s)
    /\ IF change = "Added"
       THEN /\ Len(added[s]) < MaxAdded
            /\ added' = [added EXCEPT ![s] = Append(@, name)]
            /\ inflight' = [inflight EXCEPT
                   ![s] = @ \cup {[name |-> name, ev |-> Len(added[s]) + 1]}]
            /\ UNCHANGED others
       ELSE /\ others[s] < MaxOthers
            /\ others' = [others EXCEPT ![s] = @ + 1]
            /\ UNCHANGED <<added, inflight>>
    /\ UNCHANGED <<cfg, pc, sub, timer, cancelPending, extCancelled, queue,
                   yielded, retv, exitReason, outcome, dequeued, addedAtElapse,
                   stray>>

\* one queue at module level, shared by every call
QueueOf_Shared(s) == "s1"

\* The queue an add_service task puts into: the one of its own _discover call.
QueueOf(s) == s

\* a queue that hands out its newest item first (asyncio.LifoQueue)
Put_Lifo(q, item) == <<item>> \o q

\* queue.put on the asyncio.Queue of line 28: first in, first out, unbounded
Put(q, item) == Append(q, item)

\* resolutions answered one at a time, in the order they were started
add_service_InOrder(s, task) ==
    /\ task \in inflight[s]
    /\ \A other \in inflight[s] : task.ev <= other.ev
    /\ inflight' = [inflight EXCEPT ![s] = @ \ {task}]
    /\ queue' = [queue EXCEPT ![QueueOf(s)] = Put(@,
           [info |-> ServiceInfo(task.name),
            ev |-> task.ev, owner |-> s, putAt |-> pc[s],
            done |-> Len(dequeued[s]) + Len(queue[s]) + 1])]
    /\ UNCHANGED <<cfg, pc, sub, timer, cancelPending, extCancelled, yielded,
                   retv, exitReason, outcome, added, dequeued, addedAtElapse,
                   stray, others>>

\* add_service after get_service_info answered (the info, or None when the
\* fetch found nothing): queue.put(info).  (An item's `done` numbers the
\* session's resolutions in the order they completed.)
add_service(s, task) ==
    /\ task \in inflight[s]
    /\ inflight' = [inflight EXCEPT ![s] = @ \ {task}]
    /\ queue' = [queue EXCEPT ![QueueOf(s)] = Put(@,
           [info |-> ServiceInfo(task.name),
            ev |-> task.ev, owner |-> s, putAt |-> pc[s],
            done |-> Len(dequeued[s]) + Len(queue[s]) + 1])]
    /\ UNCHANGED <<cfg, pc, sub, timer, cancelPending, extCancelled, yielded,
                   retv, exitReason, outcome, added, dequeued, addedAtElapse,
                   stray, others>>

\* ----------------------------------------------------------- session loop
\* The task wakes in queue.get() with an item and runs to its next suspension.
DiscoverStep(s) ==
    /\ pc[s] = "get"
    /\ queue[s] # <<>>
    /\ ~cancelPending[s]
    /\ LET r == RunLoop(queue[s], yielded[s], MatchOf(cfg[s].id),
                        cfg[s].entry = "one", cfg[s].consumer = "leave")
           n == Len(queue[s]) - Len(r.queue)
       IN /\ queue' = [queue EXCEPT ![s] = r.queue]
          /\ dequeued' = [dequeued EXCEPT ![s] = @ \o SubSeq(queue[s], 1, n)]
          /\ yielded' = [yielded EXCEPT ![s] = r.out]
          /\ retv' = [retv EXCEPT ![s] =
                 IF cfg[s].entry = "one" /\ r.out # <<>>
                 THEN <<r.out[Len(r.out)]>> ELSE @]
          /\ pc' = [pc EXCEPT ![s] =
                 CASE r.exit = "wait" -> "get"
                   [] r.exit = "abandon" -> "abandoned"
                   [] OTHER -> "closing"]
          /\ exitReason' = [exitReason EXCEPT ![s] =
                 IF r.exit \in {"return", "raise"} THEN r.exit ELSE @]
          /\ sub' = [sub EXCEPT ![s] =
                 IF r.exit \in {"return", "raise"} THEN "closing" ELSE @]
    /\ UNCHANGED <<cfg, timer, cancelPending, extCancelled, inflight, outcome,
                   added, addedAtElapse, stray, others>>


\* ------------------------------------------------------------- teardown
\* The exception in flight when the finally block was entered.
PendingExc(reason) ==
    CASE reason = "return" -> "none"
      [] reason = "cancel" -> "CancelledError"
      [] OTHER -> "Error"

\* What the caller of the wrapper sees when `exc` leaves _discover.
Outcome(entry, exc, fired) ==
    IF entry = "all" THEN DiscoverAllOutcome(TimeoutExit(exc, fired))
    ELSE DiscoverOneOutcome(TimeoutExit(exc, fired))

\* The finally block is left with `exc` and the Zeroconf in state `closed`;
\* the exception passes the timeout block (which drops its timer) and the
\* wrapper, all without suspending.
Finish(s, closed, exc) ==
    /\ sub' = [sub EXCEPT ![s] = closed]
    /\ pc' = [pc EXCEPT ![s] = "done"]
    /\ IF exitReason[s] = "aclose"
       THEN /\ outcome' = [outcome EXCEPT ![s] = "abandoned"]
            /\ UNCHANGED timer
       ELSE /\ outcome' = [outcome EXCEPT
                   ![s] = Outcome(cfg[s].entry, exc, timer[s] = "fired")]
            /\ timer' = [timer EXCEPT ![s] = IF @ = "armed" THEN "disarmed" ELSE @]

\* a timeout whose callback does not cancel the task
TimerFire_NoCancel(s) ==
    /\ timer[s] = "armed"
    /\ timer' = [timer EXCEPT ![s] = "fired"]
    /\ addedAtElapse' = [addedAtElapse EXCEPT ![s] = Len(added[s])]
    /\ UNCHANGED <<cfg, pc, sub, cancelPending, extCancelled, inflight, queue,
                   yielded, retv, exitReason, outcome, added, dequeued, stray,
                   others>>

\* The timeout's call_later callback: it marks the timeout as elapsed and
\* calls cancel() on the task that entered the timeout block.
TimerFire(s) ==
    /\ timer[s] = "armed"
    /\ timer' = [timer EXCEPT ![s] = "fired"]
    /\ cancelPending' = [cancelPending EXCEPT ![s] = TRUE]
    /\ addedAtElapse' = [addedAtElapse EXCEPT ![s] = Len(added[s])]
    /\ UNCHANGED <<cfg, pc, sub, extCancelled, inflight, queue, yielded, retv,
                   exitReason, outcome, added, dequeued, stray, others>>

\* The caller's task is cancelled from outside while it is inside the call.
ExternalCancel(s) ==
    /\ pc[s] = "get" \/ (pc[s] = "closing" /\ exitReason[s] # "aclose")
    /\ ~extCancelled[s]
    /\ extCancelled' = [extCancelled EXCEPT ![s] = TRUE]
    /\ cancelPending' = [cancelPending EXCEPT ![s] = TRUE]
    /\ UNCHANGED <<cfg, pc, sub, timer, inflight, queue, yielded, retv,
                   exitReason, outcome, added, dequeued, addedAtElapse, stray,
                   others>>

\* CancelledError is thrown into `await queue.get()` (line 44): the finally
\* block starts `await conf.close()` (lines 56-57).
CancelWait(s) ==
    /\ pc[s] = "get"
    /\ cancelPending[s]
    /\ cancelPending' = [cancelPending EXCEPT ![s] = FALSE]
    /\ pc' = [pc EXCEPT ![s] = "closing"]
    /\ exitReason' = [exitReason EXCEPT ![s] = "cancel"]
    /\ sub' = [sub EXCEPT ![s] = "closing"]
    /\ UNCHANGED <<cfg, timer, extCancelled, inflight, queue, yielded, retv,
                   outcome, added, dequeued, addedAtElapse, stray, others>>

\* CancelledError is thrown into `await conf.close()` (line 57), which the
\* finally block does not shield: close() is left where it was suspended.
CancelClose(s) ==
    /\ pc[s] = "closing"
    /\ exitReason[s] # "aclose"
    /\ cancelPending[s]
    /\ cancelPending' = [cancelPending EXCEPT ![s] = FALSE]
    /\ Finish(s, "interrupted", "CancelledError")
    /\ UNCHANGED <<cfg, extCancelled, inflight, queue, yielded, retv,
                   exitReason, added, dequeued, addedAtElapse, stray, others>>

\* a teardown that first gathers the add_service tasks
CloseDone_WaitsForTasks(s) ==
    /\ pc[s] = "closing"
    /\ inflight[s] = {}
    /\ exitReason[s] = "aclose" \/ ~cancelPending[s]
    /\ Finish(s, "released", PendingExc(exitReason[s]))
    /\ UNCHANGED <<cfg, cancelPending, extCancelled, inflight, queue, yielded,
                   retv, exitReason, added, dequeued, addedAtElapse, stray,
                   others>>

\* `await conf.close()` completes.
CloseDone(s) ==
    /\ pc[s] = "closing"
    /\ exitReason[s] = "aclose" \/ ~cancelPending[s]
    /\ Finish(s, "released", PendingExc(exitReason[s]))
    /\ UNCHANGED <<cfg, cancelPending, extCancelled, inflight, queue, yielded,
                   retv, exitReason, added, dequeued, addedAtElapse, stray,
                   others>>

\* `await conf.close()` raises: its exception replaces the one in flight.
CloseFail(s) ==
    /\ pc[s] = "closing"
    /\ exitReason[s] = "aclose" \/ ~cancelPending[s]
    /\ Finish(s, "failed", "Error")
    /\ UNCHANGED <<cfg, cancelPending, extCancelled, inflight, queue, yielded,
                   retv, exitReason, added, dequeued, addedAtElapse, stray,
                   others>>

\* ------------------------------------------------- an abandoned generator
\* The consumer left its `async for` (line 64 stays suspended at its yield,
\* and so does line 51).  The code never calls aclose(): only when the
\* generator object is garbage-collected does the event loop's finalizer
\* throw GeneratorExit into it, which leaves the timeout block (the timer is
\* dropped) and runs the finally block in a task of the loop's own.
Finalize(s) ==
    /\ pc[s] = "abandoned"
    /\ pc' = [pc EXCEPT ![s] = "closing"]
    /\ exitReason' = [exitReason EXCEPT ![s] = "aclose"]
    /\ sub' = [sub EXCEPT ![s] = "closing"]
    /\ timer' = [timer EXCEPT ![s] = IF @ = "armed" THEN "disarmed" ELSE @]
    /\ UNCHANGED <<cfg, cancelPending, extCancelled, inflight, queue, yielded,
                   retv, outcome, added, dequeued, addedAtElapse, stray,
                   others>>

\* The timeout's cancel() reaches the consumer's task while that task is no
\* longer inside the generator: CancelledError is thrown into whatever the
\* consumer awaits.
CancelConsumer(s) ==
    /\ cancelPending[s]
    /\ pc[s] = "abandoned" \/ exitReason[s] = "aclose"
    /\ cancelPending' = [cancelPending EXCEPT ![s] = FALSE]
    /\ stray' = [stray EXCEPT ![s] = TRUE]
    /\ UNCHANGED <<cfg, pc, sub, timer, extCancelled, inflight, queue,
                   yielded, retv, exitReason, outcome, added, dequeued,
                   addedAtElapse, others>>

\* --------------------------------------------------------- specifications
Consumers == {"drain", "leave"}

\* Everything a session does after it was started.
Run(s) ==
    \/ \E name \in Instances : sync_change_handler(s, name, "Added")
    \/ \E task \in inflight[s] : add_service(s, task)
    \/ DiscoverStep(s)
    \/ TimerFire(s)
    \/ CancelWait(s)
    \/ CancelClose(s)
    \/ CloseDone(s)
    \/ CloseFail(s)
    \/ Finalize(s)
    \/ CancelConsumer(s)

\* One call at a time, with every argument; the browser reports the instances
\* that announce themselves, and nobody but the call's own timeout cancels the
\* calling task.
Next ==
    \/ \E id \in Ids, timed \in BOOLEAN : discover_one("s1", id, timed)
    \/ \E id \in Ids, timed \in BOOLEAN, consumer \in Consumers :
           discover_all("s1", id, timed, consumer)
    \/ Run("s1")

Spec == Init /\ [][Next]_vars

\* The event loop runs every callback that is ready: a timer that is armed
\* fires, a cancelled task is resumed, and close() comes to an end.  Nothing
\* makes the network announce, a fetch answer, or an abandoned generator be
\* collected.
Fairness ==
    /\ WF_vars(TimerFire("s1"))
    /\ WF_vars(CancelWait("s1"))
    /\ WF_vars(CancelClose("s1"))
    /\ WF_vars(CloseDone("s1") \/ CloseFail("s1"))

FairSpec == Spec /\ Fairness

\* The same, and the calling task may also be cancelled from outside.
NextCancel == Next \/ ExternalCancel("s1")

SpecCancel == Init /\ [][NextCancel]_vars

\* A discover_all call whose browser also reports the instances that change
\* or go away.
NextFeed ==
    \/ \E consumer \in Consumers : discover_all("s1", NoId, TRUE, consumer)
    \/ Run("s1")
    \/ \E name \in Instances, change \in StateChanges \ {"Added"} :
           sync_change_handler("s1", name, change)

SpecFeed == Init /\ [][NextFeed]_vars

\* Two discover_all calls at once, on the same service type.
NextPair ==
    \E s \in Sessions :
        \/ discover_all(s, NoId, TRUE, "drain")
        \/ sync_change_handler(s, "spark", "Added")
        \/ \E task \in inflight[s] : add_service(s, task)
        \/ DiscoverStep(s)
        \/ TimerFire(s)
        \/ CancelWait(s)
        \/ CloseDone(s)

SpecPair == Init /\ [][NextPair]_vars


\* ================================================================ claims
Concrete(id) == id.some /\ id.val # <<>>

PlaceholderBytes == <<0, 0, 0, 0>>

\* The identity of a resolved instance: its server name without the suffix.
IdentityOf(item) == SubSeq(item.info.server, 1, Len(item.info.server) - 7)

\* A dequeued item passes: it carries an info, its address is not the
\* placeholder, and its identity equals the filter's, letter case aside.
Passes(item, id) ==
    /\ ~item.info.isNone
    /\ item.info.address # PlaceholderBytes
    /\ Concrete(id) => Lower(IdentityOf(item)) = Lower(id.val)

Evs(seq) == [i \in DOMAIN seq |-> seq[i].ev]

EvSet(seq) == {seq[i].ev : i \in DOMAIN seq}

\* ---------------------------------------------------------------- C1
\* C1: no record a session has yielded, and none discover_one holds as its
\* result, has address 0.0.0.0; a dequeued item whose address is the placeholder
\* is never yielded, whether or not its identity equals the filter's.
C1_NoPlaceholderYielded ==
    \A s \in Sessions :
        /\ \A i \in DOMAIN yielded[s] : yielded[s][i].addr # SimulatorAddr
        /\ \A i \in DOMAIN retv[s] : retv[s][i].addr # SimulatorAddr
        /\ \A i \in DOMAIN dequeued[s] :
               (~dequeued[s][i].info.isNone
                    /\ dequeued[s][i].info.address = PlaceholderBytes)
                   => dequeued[s][i].ev \notin EvSet(yielded[s])

\* a placeholder item whose identity equals the concrete filter was dequeued and
\* skipped, and the session went on to yield another record
C1_Witness ==
    \E s \in Sessions :
        /\ Concrete(cfg[s].id)
        /\ yielded[s] # <<>>
        /\ \E i \in DOMAIN dequeued[s] :
               /\ ~dequeued[s][i].info.isNone
               /\ dequeued[s][i].info.address = PlaceholderBytes
               /\ Lower(IdentityOf(dequeued[s][i])) = Lower(cfg[s].id.val)

\* ---------------------------------------------------------------- C2
\* C2: with a concrete filter identity every yielded record's identity equals
\* it letter case aside, and a dequeued item whose identity differs is never
\* yielded; in every session the records yielded are, in order, exactly the
\* dequeued items that pass (so with the identity absent, every dequeued item
\* with an info and a non-placeholder address).
C2_YieldedAreTheMatches ==
    \A s \in Sessions :
        /\ Concrete(cfg[s].id) =>
               \A i \in DOMAIN yielded[s] :
                   /\ Lower(yielded[s][i].serial) = Lower(cfg[s].id.val)
                   /\ Len(yielded[s][i].serial) = Len(cfg[s].id.val)
        /\ Evs(yielded[s]) =
               Evs(SelectSeq(dequeued[s], LAMBDA it : Passes(it, cfg[s].id)))

\* a session filtering on "aB" dequeued "abc" (a longer name with the same
\* prefix) without yielding it, and yielded "Ab"
C2_Witness ==
    \E s \in Sessions :
        /\ Concrete(cfg[s].id)
        /\ \E i \in DOMAIN yielded[s] : yielded[s][i].serial # cfg[s].id.val
        /\ \E i \in DOMAIN dequeued[s] :
               /\ ~dequeued[s][i].info.isNone
               /\ dequeued[s][i].info.address # PlaceholderBytes
               /\ dequeued[s][i].ev \notin EvSet(yielded[s])

\* ---------------------------------------------------------------- C3
\* C3: a discover_one session yields at most one record; when discover_one
\* returns, its result is that record, which is the first dequeued item that
\* passes the filter, and the session is over with conf.close() completed.
C3_ReturnsFirstMatchClosed ==
    \A s \in Sessions :
        cfg[s].entry = "one" =>
            /\ Len(yielded[s]) <= 1
            /\ outcome[s] = "returned" =>
                   /\ pc[s] = "done"
                   /\ sub[s] = "released"
                   /\ timer[s] # "armed"
                   /\ retv[s] = yielded[s]
                   /\ Len(yielded[s]) = 1
                   /\ \E k \in DOMAIN dequeued[s] :
                          /\ Passes(dequeued[s][k], cfg[s].id)
                          /\ \A j \in 1..(k - 1) : ~Passes(dequeued[s][j], cfg[s].id)
                          /\ retv[s][1].ev = dequeued[s][k].ev
                          /\ retv[s][1].port = dequeued[s][k].info.port
                          /\ retv[s][1].serial = IdentityOf(dequeued[s][k])

\* discover_one returned after skipping an earlier dequeued item
C3_Witness ==
    \E s \in Sessions :
        /\ cfg[s].entry = "one"
        /\ outcome[s] = "returned"
        /\ Len(dequeued[s]) >= 2

\* ---------------------------------------------------------------- C4
\* C4: when the bound of a discover_one call elapses while the session waits
\* for a record (nothing yielded), the caller not cancelling the call itself
\* and close() not raising, the call fails with Timeout; and whenever such a
\* call has failed with Timeout, conf.close() has completed.
C4_TimeoutAfterRelease ==
    \A s \in Sessions :
        (cfg[s].entry = "one" /\ pc[s] = "done" /\ exitReason[s] = "cancel"
             /\ ~extCancelled[s]) =>
            /\ timer[s] = "fired"
            /\ yielded[s] = <<>>
            /\ sub[s] \in {"released", "failed"}
            /\ sub[s] = "released" <=> outcome[s] = "Timeout"

\* a discover_one call dequeued an item that did not pass, then timed out
C4_Witness ==
    \E s \in Sessions :
        /\ cfg[s].entry = "one"
        /\ outcome[s] = "Timeout"
        /\ exitReason[s] = "cancel"
        /\ ~extCancelled[s]
        /\ sub[s] = "released"
        /\ dequeued[s] # <<>>


\* ---------------------------------------------------------------- C5
\* no discover_all call ends in Timeout; a call whose bound has elapsed and
\* whose consumer iterates to the end ends normally (the caller not cancelling
\* the call itself, close() not raising)
C5_EndsNormally ==
    \A s \in Sessions :
        cfg[s].entry = "all" =>
            /\ outcome[s] # "Timeout"
            /\ (pc[s] = "done" /\ timer[s] = "fired" /\ cfg[s].consumer = "drain"
                    /\ ~extCancelled[s] /\ sub[s] # "failed")
                   => outcome[s] = "ended"

\* once the bound has elapsed the consumer receives nothing more, and keeps
\* what it has received
C5_ResultKept ==
    \A s \in Sessions :
        (cfg[s].entry = "all" /\ timer[s] = "fired") => yielded'[s] = yielded[s]

\* C5: a discover_all call with a finite timeout whose consumer iterates to the
\* end always terminates; it never ends in a Timeout error; when the bound has
\* elapsed it ends normally; and the records yielded before the bound elapsed
\* stay the result.
C5_DiscoverAllTerminates ==
    /\ []C5_EndsNormally
    /\ [][C5_ResultKept]_vars
    /\ (cfg["s1"].entry = "all" /\ cfg["s1"].timed /\ cfg["s1"].consumer = "drain")
           ~> (pc["s1"] = "done")

\* a discover_all call yielded a record, its bound elapsed, and it ended normally
C5_Witness ==
    \E s \in Sessions :
        /\ cfg[s].entry = "all"
        /\ cfg[s].consumer = "drain"
        /\ timer[s] = "fired"
        /\ pc[s] = "done"
        /\ outcome[s] = "ended"
        /\ yielded[s] # <<>>


\* ---------------------------------------------------------------- C6
\* the instance would pass the session's filter once resolved
InstancePasses(name, id) == Passes([info |-> ServiceInfo(name)], id)

\* the Added events of session s up to the moment its bound elapsed
AnnouncedInTime(s) == {k \in DOMAIN added[s] : k <= addedAtElapse[s]}

\* C6 as stated: a discover_all call that ended at its bound has yielded exactly
\* the matching instances announced at or before the bound.
C6_Original ==
    \A s \in Sessions :
        (cfg[s].entry = "all" /\ cfg[s].consumer = "drain" /\ pc[s] = "done"
             /\ timer[s] = "fired" /\ outcome[s] = "ended") =>
            EvSet(yielded[s]) =
                {k \in AnnouncedInTime(s) : InstancePasses(added[s][k], cfg[s].id)}

\* C6 (amended): a discover_all call yields only matching instances that were
\* announced at or before the bound, namely exactly those whose record was
\* resolved and dequeued before the bound elapsed; nothing announced, and
\* nothing dequeued, after the bound is yielded.
C6_YieldedBeforeBound ==
    \A s \in Sessions :
        cfg[s].entry = "all" =>
            /\ timer[s] = "fired" =>
                   /\ EvSet(yielded[s]) \subseteq AnnouncedInTime(s)
                   /\ EvSet(dequeued[s]) \subseteq AnnouncedInTime(s)
            /\ EvSet(yielded[s]) \subseteq
                   {k \in DOMAIN added[s] : InstancePasses(added[s][k], cfg[s].id)}
            /\ cfg[s].consumer = "drain" =>
                   EvSet(yielded[s]) =
                       {dequeued[s][i].ev : i \in
                            {j \in DOMAIN dequeued[s] :
                                 Passes(dequeued[s][j], cfg[s].id)}}

\* a call ended at its bound having yielded a record, and a matching instance
\* announced after the bound was not yielded
C6_Witness ==
    \E s \in Sessions :
        /\ cfg[s].entry = "all"
        /\ cfg[s].consumer = "drain"
        /\ pc[s] = "done"
        /\ outcome[s] = "ended"
        /\ timer[s] = "fired"
        /\ yielded[s] # <<>>
        /\ \E k \in DOMAIN added[s] :
               /\ k > addedAtElapse[s]
               /\ InstancePasses(added[s][k], cfg[s].id)


\* ---------------------------------------------------------------- C7
\* every item in a session's queue, and every record it dequeued or yielded,
\* was resolved for that session's own subscription
C7_OwnRecords ==
    \A s \in Sessions :
        /\ \A i \in DOMAIN queue[s] : queue[s][i].owner = s
        /\ \A i \in DOMAIN dequeued[s] : dequeued[s][i].owner = s
        /\ \A i \in DOMAIN yielded[s] : yielded[s][i].owner = s

\* a step of one session (its start, an announcement to it, a resolution, a
\* loop step, its timeout, its teardown) leaves the other session's
\* subscription, queue, position, result and outcome as they were
C7_OtherUntouched ==
    \A s \in Sessions : \A u \in Sessions \ {s} :
        (pc'[s] # pc[s] \/ sub'[s] # sub[s] \/ inflight'[s] # inflight[s]
             \/ timer'[s] # timer[s] \/ added'[s] # added[s]) =>
            /\ sub'[u] = sub[u]
            /\ pc'[u] = pc[u]
            /\ queue'[u] = queue[u]
            /\ dequeued'[u] = dequeued[u]
            /\ yielded'[u] = yielded[u]
            /\ outcome'[u] = outcome[u]
            /\ timer'[u] = timer[u]

\* C7: two discover_all calls running at once are independent sessions: each
\* has its own subscription and queue, a record resolved for one is never
\* dequeued or yielded by the other, and closing one neither closes the
\* other's subscription nor changes what the other yields.
C7_IndependentSessions == []C7_OwnRecords /\ [][C7_OtherUntouched]_vars

\* one call has timed out and is closed, a resolution of its own still in
\* flight, while the other, started on the same type, still browses and has
\* yielded a record
C7_Witness ==
    \E s \in Sessions : \E u \in Sessions \ {s} :
        /\ pc[s] = "done"
        /\ sub[s] = "released"
        /\ yielded[s] # <<>>
        /\ sub[u] = "open"
        /\ pc[u] = "get"
        /\ yielded[u] # <<>>
        /\ inflight[s] # {}


\* ---------------------------------------------------------------- C8
\* C8: a session that has ended has run its release step to the end: its
\* subscription is not left open, nor its close() left unfinished, on any exit
\* path of the loop.
C8_ReleasedOnEveryExit ==
    \A s \in Sessions :
        pc[s] = "done" => sub[s] \in {"released", "failed"}


\* ---------------------------------------------------------------- C9
\* C9: leaving the discover_all sequence ends the session, so that its timeout
\* is no longer armed and never cancels the consumer's own later work.
C9_NoStrayCancel == \A s \in Sessions : ~stray[s]


\* ---------------------------------------------------------------- C10
\* a session that is over yields and dequeues nothing more, and stays over
C10_ClosedYieldsNothing ==
    \A s \in Sessions :
        pc[s] = "done" =>
            /\ pc'[s] = "done"
            /\ yielded'[s] = yielded[s]
            /\ dequeued'[s] = dequeued[s]
            /\ retv'[s] = retv[s]
            /\ outcome'[s] = outcome[s]

\* no item put once the teardown had begun is ever dequeued, and close() can
\* complete while add_service tasks are still in flight
C10_TeardownDoesNotWait ==
    \A s \in Sessions :
        /\ \A i \in DOMAIN dequeued[s] : dequeued[s][i].putAt = "get"
        /\ (pc[s] = "closing" /\ ~cancelPending[s] /\ inflight[s] # {})
               => ENABLED CloseDone(s)

\* C10: once a session is Closed it yields no further record; a resolution that
\* was in flight at the close may still complete and put its record, which is
\* never dequeued or yielded; and the teardown does not wait for the tasks in
\* flight.
C10_NothingAfterClose ==
    [][C10_ClosedYieldsNothing]_vars /\ []C10_TeardownDoesNotWait

\* a session is Closed, a record that passes its filter was put after the
\* close and lies in the queue unyielded, and another task is still in flight
C10_Witness ==
    \E s \in Sessions :
        /\ pc[s] = "done"
        /\ sub[s] = "released"
        /\ inflight[s] # {}
        /\ \E i \in DOMAIN queue[s] :
               /\ queue[s][i].putAt = "done"
               /\ Passes(queue[s][i], cfg[s].id)
               /\ queue[s][i].ev \notin EvSet(yielded[s])


\* ---------------------------------------------------------------- C11
\* C11: a fetch that found nothing is absorbed: no call whose close()
\* completed ends, for its caller, with an error other than Timeout.
C11_FetchFailureAbsorbed ==
    \A s \in Sessions :
        (pc[s] = "done" /\ sub[s] = "released") => outcome[s] # "Error"


\* ---------------------------------------------------------------- C12
\* C12: when close() raises during the teardown, the call still ends as it
\* would have: discover_one returns the match it yielded, or fails with Timeout
\* when its bound elapsed during the wait, and discover_all ends normally.
C12_ReleaseFailureNotMasking ==
    \A s \in Sessions :
        (pc[s] = "done" /\ sub[s] = "failed") =>
            /\ (cfg[s].entry = "one" /\ exitReason[s] = "return")
                   => outcome[s] = "returned"
            /\ (cfg[s].entry = "one" /\ exitReason[s] = "cancel"
                    /\ timer[s] = "fired" /\ ~extCancelled[s])
                   => outcome[s] = "Timeout"
            /\ (cfg[s].entry = "all" /\ exitReason[s] = "cancel"
                    /\ timer[s] = "fired" /\ ~extCancelled[s])
                   => outcome[s] = "ended"


\* ---------------------------------------------------------------- C13
\* C13: a discover_one call without a timeout, whose loop has dequeued only
\* records that do not pass (another identity, or the placeholder address),
\* has not completed: it waits in queue.get() with its subscription open,
\* nothing yielded and no result, however many such records it dequeued.
C13_BlocksWithoutMatch ==
    \A s \in Sessions :
        (/\ cfg[s].entry = "one"
         /\ ~cfg[s].timed
         /\ \A i \in DOMAIN dequeued[s] :
                ~dequeued[s][i].info.isNone /\ ~Passes(dequeued[s][i], cfg[s].id))
        => /\ pc[s] = "get"
           /\ sub[s] = "open"
           /\ outcome[s] = "pending"
           /\ yielded[s] = <<>>
           /\ retv[s] = <<>>

\* an untimed discover_one call has dequeued a record with another identity and
\* a placeholder record, and still waits
C13_Witness ==
    \E s \in Sessions :
        /\ cfg[s].entry = "one"
        /\ ~cfg[s].timed
        /\ pc[s] = "get"
        /\ \E i \in DOMAIN dequeued[s] :
               /\ ~dequeued[s][i].info.isNone
               /\ dequeued[s][i].info.address = PlaceholderBytes
        /\ \E i \in DOMAIN dequeued[s] :
               /\ ~dequeued[s][i].info.isNone
               /\ dequeued[s][i].info.address # PlaceholderBytes
               /\ ~Passes(dequeued[s][i], cfg[s].id)


\* ---------------------------------------------------------------- C14
EndsWith(str, suffix) ==
    /\ Len(str) >= Len(suffix)
    /\ SubSeq(str, Len(str) - Len(suffix) + 1, Len(str)) = suffix

\* C14: for every yielded record whose server name ends in '.local.', the
\* identity followed by '.local.' is that server name, letter for letter; and
\* in a session with a concrete filter identity the yielded identity equals
\* the filter's once both are lower-cased.
C14_IdentityIsNameWithoutSuffix ==
    \A s \in Sessions :
        \A i \in DOMAIN yielded[s] : \A k \in DOMAIN dequeued[s] :
            (dequeued[s][k].ev = yielded[s][i].ev
                 /\ EndsWith(dequeued[s][k].info.server, LocalSuffix)) =>
                /\ yielded[s][i].serial \o LocalSuffix = dequeued[s][k].info.server
                /\ Concrete(cfg[s].id) =>
                       Lower(yielded[s][i].serial) = Lower(cfg[s].id.val)

\* a session filtering on "aB" yielded the identity "Ab" of the server name
\* "Ab.local.": neither the filter's spelling nor the lower-cased one
C14_Witness ==
    \E s \in Sessions :
        /\ Concrete(cfg[s].id)
        /\ \E i \in DOMAIN yielded[s] :
               /\ yielded[s][i].serial # cfg[s].id.val
               /\ yielded[s][i].serial # Lower(yielded[s][i].serial)
               /\ \E k \in DOMAIN dequeued[s] :
                      /\ dequeued[s][k].ev = yielded[s][i].ev
                      /\ EndsWith(dequeued[s][k].info.server, LocalSuffix)


\* ---------------------------------------------------------------- C15
\* the completion number of the resolution that answered announcement ev
DoneOf(s, ev) ==
    LET k == CHOOSE k \in DOMAIN dequeued[s] : dequeued[s][k].ev = ev
    IN dequeued[s][k].done

\* C15: a session's queue is first in, first out over the completions of its
\* resolutions, and its records are yielded in that order: of two yielded
\* records the one whose resolution completed first was yielded first,
\* whichever instance was announced first.
C15_YieldedInCompletionOrder ==
    \A s \in Sessions :
        /\ LET all == dequeued[s] \o queue[s]
           IN \A i, j \in DOMAIN all : i < j => all[i].done < all[j].done
        /\ \A i, j \in DOMAIN yielded[s] :
               i < j => DoneOf(s, yielded[s][i].ev) < DoneOf(s, yielded[s][j].ev)

\* the instance announced second was resolved first and yielded first
C15_Witness ==
    \E s \in Sessions :
        /\ Len(yielded[s]) >= 2
        /\ yielded[s][1].ev > yielded[s][2].ev
        /\ DoneOf(s, yielded[s][1].ev) < DoneOf(s, yielded[s][2].ev)


\* ---------------------------------------------------------------- C16
\* C16: while a resolution is pending, whatever else is pending, the handler
\* still accepts an Added event for any instance, every pending resolution
\* can complete on its own, and the loop takes what has been put.
C16_PendingFetchBlocksNothing ==
    \A s \in Sessions :
        inflight[s] # {} =>
            /\ \A task \in inflight[s] : ENABLED add_service(s, task)
            /\ (Listening(s) /\ Len(added[s]) < MaxAdded) =>
                   \A name \in Instances :
                       ENABLED sync_change_handler(s, name, "Added")
            /\ (pc[s] = "get" /\ queue[s] # <<>> /\ ~cancelPending[s]) =>
                   ENABLED DiscoverStep(s)

\* the fetch for the first announcement is still pending, and the record of
\* the instance announced after it has been yielded
C16_Witness ==
    \E s \in Sessions :
        /\ \E task \in inflight[s] : task.ev = 1
        /\ \E i \in DOMAIN yielded[s] : yielded[s][i].ev = 2


\* ---------------------------------------------------------------- C17
\* C17: a discover_one call fails with Timeout only if its session yielded no
\* match: a bound that elapses once the match was yielded, while the
\* subscription is being closed, does not turn the result into Timeout.
C17_TimeoutOnlyWithoutMatch ==
    \A s \in Sessions :
        (cfg[s].entry = "one" /\ outcome[s] = "Timeout") => yielded[s] = <<>>


\* ---------------------------------------------------------------- C18
\* the resolution tasks a session has started: those still waiting for their
\* answer and those that have put it
Started(s) == Cardinality(inflight[s]) + Len(queue[s]) + Len(dequeued[s])

\* one task was started per Added event, so no more records were enqueued than
\* Added events were received
C18_OneTaskPerAdded ==
    \A s \in Sessions :
        /\ Started(s) = Len(added[s])
        /\ Len(queue[s]) + Len(dequeued[s]) <= Len(added[s])

\* a call of the handler with Removed or Updated starts no task, enqueues
\* nothing and yields nothing
C18_OtherChangesIgnored ==
    \A s \in Sessions :
        others'[s] # others[s] =>
            /\ inflight'[s] = inflight[s]
            /\ queue'[s] = queue[s]
            /\ dequeued'[s] = dequeued[s]
            /\ yielded'[s] = yielded[s]
            /\ added'[s] = added[s]

\* C18: only a change of kind Added starts a resolution task: a Removed or
\* Updated notification starts none, enqueues nothing and yields nothing, and
\* the records enqueued in a session never outnumber its Added events.
C18_OnlyAddedStartsTask == []C18_OneTaskPerAdded /\ [][C18_OtherChangesIgnored]_vars

\* the handler was called with a change other than Added, and with Added twice:
\* one record was enqueued and yielded, one resolution is still pending
C18_Witness ==
    \E s \in Sessions :
        /\ others[s] >= 1
        /\ Len(added[s]) = 2
        /\ Cardinality(inflight[s]) = 1
        /\ Len(yielded[s]) = 1


\* ---------------------------------------------------------------- C19
\* C19: a discover_all session whose consumer iterates to the end has yielded
\* one record for each dequeued item that passes, an instance announced twice
\* being yielded twice; a yield never ends the session, which is back in
\* queue.get() with its subscription open until it is cancelled or fails.
C19_NoDeduplication ==
    \A s \in Sessions :
        (cfg[s].entry = "all" /\ cfg[s].consumer = "drain") =>
            /\ Len(yielded[s]) =
                   Len(SelectSeq(dequeued[s], LAMBDA it : Passes(it, cfg[s].id)))
            /\ exitReason[s] # "return"
            /\ exitReason[s] = "none" => (pc[s] = "get" /\ sub[s] = "open")

\* the same instance was announced twice and yielded twice, and the session
\* browses on
C19_Witness ==
    \E s \in Sessions :
        /\ cfg[s].entry = "all"
        /\ cfg[s].consumer = "drain"
        /\ Len(added[s]) = 2
        /\ added[s][1] = added[s][2]
        /\ Len(yielded[s]) = 2
        /\ yielded[s][1].addr = yielded[s][2].addr
        /\ yielded[s][1].port = yielded[s][2].port
        /\ yielded[s][1].serial = yielded[s][2].serial
        /\ pc[s] = "get"
        /\ sub[s] = "open"

====
